---- MODULE Spec2Model ----
(***************************************************************************)
(* A model of dicom2fem/seg2fem.py: voxel arrays to finite element meshes  *)
(* (gen_mesh_from_voxels), the cell splitter (elems_q2t), the smoother     *)
(* (smooth_mesh), vertex welding and the external re-mesh step             *)
(* (gen_mesh_from_voxels_mc).                                              *)
(*                                                                         *)
(* Arrays are 0-based as in numpy: an index tuple <<i, j, k>> has its      *)
(* components in 0 .. shape-1.  A node id k is the k-th row of the         *)
(* coordinate array, kept here as element k+1 of a sequence.               *)
(***************************************************************************)
EXTENDS Integers, Sequences, FiniteSets, TLC

VARIABLES
    pc,        \* which call has been made on the current input
    voxels,    \* the occupancy array: [shape, occ]
    dims,      \* voxel spacing, one entry per axis
    etype,     \* 'q' or 't'
    mtype,     \* 'v' or 's'
    mesh,      \* the value returned by gen_mesh_from_voxels (or the error raised)
    sargs,     \* smooth_mesh: the arguments of the call
    weights,   \* smooth_mesh: the weight matrix used, row -> (column -> entry)
    vol,       \* smooth_mesh: what get_volume gave for the unsmoothed mesh
    ret,       \* smooth_mesh: the coordinates returned (or the error raised)
    tri,       \* gen_mesh_from_voxels_mc: the triangles marching_cubes returned
    hashseed,  \* the order in which this interpreter iterates a set
    mcargs,    \* the last call: gmsh3d, and what the gmsh run did
    mcmesh,    \* the value the last call returned (or the error raised)
    welded,    \* the welding step applied to the triangles of mcmesh
    msh_file,  \* content of <tmp>/dicom2fem_temp_volmv.msh
    calls      \* number of gen_mesh_from_voxels_mc calls still to come

genVars == <<voxels, dims, etype, mtype, mesh>>
smoothVars == <<sargs, weights, vol, ret>>
mcVars == <<tri, hashseed, mcargs, mcmesh, welded, msh_file, calls>>
vars == <<pc, genVars, smoothVars, mcVars>>

-----------------------------------------------------------------------------
(* Bounds of the model.                                                    *)

\* extent of the voxel array along the first axis (the others are 2)
NX == 2

\* largest n_iter given to smooth_mesh
MaxIter == 1

\* largest number of triangles marching_cubes returns
MaxTri == 2

\* longest sequence of gen_mesh_from_voxels_mc(gmsh3d=...) calls
MaxCalls == 2

-----------------------------------------------------------------------------
(* numpy helpers.                                                          *)

Add(p, q) == [i \in 1..Len(p) |-> p[i] + q[i]]

Sub(p, q) == [i \in 1..Len(p) |-> p[i] - q[i]]

\* number of entries of an array of the given shape
Size(shape) == IF Len(shape) = 2 THEN shape[1] * shape[2]
               ELSE shape[1] * shape[2] * shape[3]

\* the index tuple at row-major (C order) position k of an array
Unravel(k, shape) ==
    IF Len(shape) = 2
    THEN <<k \div shape[2], k % shape[2]>>
    ELSE <<k \div (shape[2] * shape[3]), (k \div shape[3]) % shape[2], k % shape[3]>>

\* every index tuple of an array, in row-major order
AllIdx(shape) == [k \in 1..Size(shape) |-> Unravel(k - 1, shape)]

IdxSet(shape) == {Unravel(k, shape) : k \in 0..(Size(shape) - 1)}

\* nm.where(a): the index tuples of the non-zero entries, row-major
Where(a, shape) == SelectSeq(AllIdx(shape), LAMBDA p : a[p] # 0)

\* position (0-based) of x in a sequence without repetitions
PosOf(s, x) == (CHOOSE k \in 1..Len(s) : s[k] = x) - 1

Range(s) == {s[k] : k \in 1..Len(s)}

RECURSIVE Concat(_)
Concat(ss) == IF ss = <<>> THEN <<>> ELSE Head(ss) \o Concat(Tail(ss))

\* an array held as a sequence, with every entry computed once
Array(s) == s \o <<>>

\* nddims + (2,): an ndarray plus a tuple is a broadcast elementwise sum
NdarrayPlusTuple(a, t) == [i \in 1..Len(a) |-> a[i] + t[1]]

\* tuple(nddims) + (4,): tuple concatenation
TuplePlusTuple(a, t) == a \o t

-----------------------------------------------------------------------------
(* Tables of the module.                                                   *)

meshio_types(edim, nelnd) ==
    CASE edim = 2 /\ nelnd = 3 -> "triangle"
      [] edim = 2 /\ nelnd = 4 -> "quad"
      [] edim = 3 /\ nelnd = 4 -> "tetra"
      [] edim = 3 /\ nelnd = 8 -> "hexahedron"
      [] OTHER -> "KeyError"

\* the table with two corners of one row swapped
q2t_hex_Typo == << <<0, 2, 3, 6>>,
                   <<0, 3, 7, 6>>,
                   <<0, 7, 4, 6>>,
                   <<0, 6, 5, 4>>,
                   <<1, 5, 6, 0>>,
                   <<1, 6, 2, 0>> >>

q2t_hex == << <<0, 2, 3, 6>>,
              <<0, 3, 7, 6>>,
              <<0, 7, 4, 6>>,
              <<0, 5, 6, 4>>,
              <<1, 5, 6, 0>>,
              <<1, 6, 2, 0>> >>

\* a split along the other diagonal that repeats corner 1
q2t_quad_Bug == << <<0, 1, 2>>,
                   <<1, 2, 3>> >>

q2t_quad == << <<0, 1, 2>>,
               <<0, 2, 3>> >>

\* elems_q2t: el is [ncol, rows]; row e*ns + ii of the output is cell e
\* taken at the columns q2t[ii]
elems_q2t(el) ==
    LET q2t == IF el.ncol > 4 THEN q2t_hex ELSE q2t_quad
        ns == Len(q2t)
        nn == Len(q2t[1])
        nel == Len(el.rows) * ns
    IN  [ncol |-> nn,
         rows |-> [r \in 1..nel |->
                     LET e == (r - 1) \div ns
                         ii == (r - 1) % ns
                     IN  [c \in 1..nn |-> el.rows[e + 1][q2t[ii + 1][c] + 1]]]]

-----------------------------------------------------------------------------
(* gen_mesh_from_voxels.                                                   *)

\* corner offsets of the volumetric element of a voxel
VolCorners(dim) ==
    IF dim = 2
    THEN << <<0, 0>>, <<1, 0>>, <<1, 1>>, <<0, 1>> >>
    ELSE << <<0, 0, 0>>, <<1, 0, 0>>, <<1, 1, 0>>, <<0, 1, 0>>,
            <<0, 0, 1>>, <<1, 0, 1>>, <<1, 1, 1>>, <<0, 1, 1>> >>

\* set_nodemtx: every grid corner of every occupied voxel is marked
set_nodemtx(nddims, vxidxs, dim) ==
    LET occ == Range(vxidxs)
        corners == Range(VolCorners(dim))
    IN  [p \in IdxSet(nddims) |->
            IF \E c \in corners : Sub(p, c) \in occ THEN 1 ELSE 0]

\* unit step along axis a (1-based)
Step(dim, a) == [i \in 1..dim |-> IF i = a THEN 1 ELSE 0]

\* corner offsets of the face written at the voxel's own position (low side)
FaceLow(dim, a) ==
    IF dim = 2
    THEN IF a = 1 THEN << <<0, 1>>, <<0, 0>> >>
                  ELSE << <<0, 0>>, <<1, 0>> >>
    ELSE CASE a = 1 -> << <<0, 0, 0>>, <<0, 0, 1>>, <<0, 1, 1>>, <<0, 1, 0>> >>
           [] a = 2 -> << <<0, 0, 0>>, <<1, 0, 0>>, <<1, 0, 1>>, <<0, 0, 1>> >>
           [] a = 3 -> << <<0, 0, 0>>, <<0, 1, 0>>, <<1, 1, 0>>, <<1, 0, 0>> >>

\* corner offsets of the face written one step further along the axis (high side)
FaceHigh(dim, a) ==
    IF dim = 2
    THEN IF a = 1 THEN << <<1, 0>>, <<1, 1>> >>
                  ELSE << <<1, 1>>, <<0, 1>> >>
    ELSE CASE a = 1 -> << <<1, 0, 0>>, <<1, 1, 0>>, <<1, 1, 1>>, <<1, 0, 1>> >>
           [] a = 2 -> << <<0, 1, 0>>, <<0, 1, 1>>, <<1, 1, 1>>, <<1, 1, 0>> >>
           [] a = 3 -> << <<0, 0, 1>>, <<1, 0, 1>>, <<1, 1, 1>>, <<0, 1, 1>> >>

\* idx = nm.where(nn == 1): the faces kept
FaceKept(count) == count = 1

\* one axis pass of the surface branch: the rows appended to felems
AxisPass(occ, nddims, nodeid, dim, a) ==
    LET e == Step(dim, a)
        G == IdxSet(nddims)
        low(v) == [c \in 1..Len(FaceLow(dim, a)) |-> nodeid[Add(v, FaceLow(dim, a)[c])]]
        high(v) == [c \in 1..Len(FaceHigh(dim, a)) |-> nodeid[Add(v, FaceHigh(dim, a)[c])]]
        fc1 == [p \in G |-> IF p \in occ THEN low(p)
                            ELSE [c \in 1..Len(FaceLow(dim, a)) |-> 0]]
        fc2 == [p \in G |-> IF Sub(p, e) \in occ THEN high(Sub(p, e)) ELSE fc1[p]]
        nn1 == [p \in G |-> IF p \in occ THEN 1 ELSE 0]
        nn2 == [p \in G |-> IF Sub(p, e) \in occ THEN nn1[p] + 1 ELSE nn1[p]]
        keep == [p \in G |-> IF FaceKept(nn2[p]) THEN 1 ELSE 0]
        idx == Where(keep, nddims)
    IN  [k \in 1..Len(idx) |-> fc2[idx[k]]]

\* the third corner taken at iy instead of iy + 1
VolElems_MissedStep(vxidxs, nodeid, dim) ==
    [k \in 1..Len(vxidxs) |->
        [c \in 1..Len(VolCorners(dim)) |->
            nodeid[Add(vxidxs[k], VolCorners(dim)[IF c = 3 THEN 2 ELSE c])]]]

\* the volumetric branch: one element per occupied voxel
VolElems(vxidxs, nodeid, dim) ==
    [k \in 1..Len(vxidxs) |->
        [c \in 1..Len(VolCorners(dim)) |-> nodeid[Add(vxidxs[k], VolCorners(dim)[c])]]]

\* the surface branch before node compaction
SurfElems(occ, nddims, nodeid, dim) ==
    Concat([a \in 1..dim |-> AxisPass(occ, nddims, nodeid, dim, a)])

\* aux after "for ii in elems.T: aux[ii] = 1" (index -1 wraps to the last entry)
MarkUsed(rows, nnod) ==
    [n \in 0..(nnod - 1) |->
        IF \E r \in 1..Len(rows) : \E c \in 1..Len(rows[r]) :
               rows[r][c] = n \/ (rows[r][c] = -1 /\ n = nnod - 1)
        THEN 1 ELSE 0]

\* idx = nm.where(aux): the old ids kept, ascending
UsedIds(aux, nnod) == SelectSeq([k \in 1..nnod |-> k - 1], LAMBDA n : aux[n] # 0)

\* new ids counted from 1
Renumber_OneBased(idx, nnod0) ==
    [n \in 0..(nnod0 - 1) |-> IF n \in Range(idx) THEN PosOf(idx, n) + 1 ELSE 0]

\* aux after "aux.fill(0); aux[idx] = range(nnod)": old id -> new id
Renumber(idx, nnod0) ==
    [n \in 0..(nnod0 - 1) |-> IF n \in Range(idx) THEN PosOf(idx, n) ELSE 0]

Wrap(i, n) == IF i < 0 THEN i + n ELSE i

Error(kind) == [status |-> kind, points |-> <<>>, ctype |-> "", cells |-> <<>>]

\* the node grid: padded shape, occupied voxels, node coordinates and the
\* lookup array nodeid (-1: no node)
NodeGrid(vox, spacing) ==
    LET dim == Len(spacing)
        nddims == [i \in 1..Len(vox.shape) |-> vox.shape[i] + 2]
        vxidxs == SelectSeq(AllIdx(vox.shape), LAMBDA p : p \in vox.occ)
        nodemtx == set_nodemtx(nddims, vxidxs, dim)
        ndidx == Where(nodemtx, nddims)
    IN  [nddims |-> nddims,
         vxidxs |-> vxidxs,
         coors |-> [k \in 1..Len(ndidx) |->
                      [i \in 1..dim |-> ndidx[k][i] * spacing[i]]],
         nodeid |-> [p \in IdxSet(nddims) |->
                       IF nodemtx[p] # 0 THEN PosOf(ndidx, p) ELSE -1]]

\* "generate elements": the cell array before node compaction and splitting
RawElems(vox, grid, dim, mt) ==
    IF mt = "v"
    THEN [ncol |-> Len(VolCorners(dim)),
          rows |-> VolElems(grid.vxidxs, grid.nodeid, dim)]
    ELSE [ncol |-> Len(FaceLow(dim, 1)),
          rows |-> SurfElems(vox.occ, grid.nddims, grid.nodeid, dim)]

\* "reduce inner nodes": coordinates filtered, cells renumbered
Compact(coors0, elems0) ==
    LET nnod0 == Len(coors0)
        aux1 == MarkUsed(elems0.rows, nnod0)
        idx == UsedIds(aux1, nnod0)
        aux2 == Renumber(idx, nnod0)
    IN  [coors |-> [k \in 1..Len(idx) |-> coors0[idx[k] + 1]],
         elems |-> [ncol |-> elems0.ncol,
                    rows |-> [r \in 1..Len(elems0.rows) |->
                                [c \in 1..elems0.ncol |->
                                    aux2[Wrap(elems0.rows[r][c], nnod0)]]]]]

gen_mesh_from_voxels(vox, spacing, et, mt) ==
    LET dim == Len(spacing)
        grid == NodeGrid(vox, spacing)
        \* the shape given to nm.zeros for fc
        fcshape == IF dim = 2 THEN NdarrayPlusTuple(grid.nddims, <<2>>)
                   ELSE TuplePlusTuple(grid.nddims, <<4>>)
        \* fc[ix, iy(, iz), :] needs dim + 1 axes
        indexError == mt = "s" /\ Len(fcshape) < dim + 1
        elems0 == RawElems(vox, grid, dim, mt)
        edim == IF mt = "v" THEN dim ELSE dim - 1
        red == IF mt = "s" THEN Compact(grid.coors, elems0)
               ELSE [coors |-> grid.coors, elems |-> elems0]
        \* el[:, q2t[ii, :]] indexes columns 0..2 of a two-column array
        q2tError == et = "t" /\ red.elems.ncol < 3
        elems == IF et = "t" THEN elems_q2t(red.elems) ELSE red.elems
        ctype == meshio_types(edim, elems.ncol)
    IN  IF indexError THEN Error("IndexError")
        ELSE IF q2tError THEN Error("IndexError")
        ELSE IF ctype = "KeyError" THEN Error("KeyError")
        ELSE [status |-> "ok", points |-> red.coors, ctype |-> ctype,
              cells |-> elems.rows]

-----------------------------------------------------------------------------
(* Exact arithmetic for coordinates: a number is <<numerator, denominator>> *)
(* in lowest terms with a positive denominator.                            *)

Abs(x) == IF x < 0 THEN 0 - x ELSE x

RECURSIVE GCD(_, _)
GCD(a, b) == IF b = 0 THEN a ELSE GCD(b, a % b)

RNorm(n, d) ==
    LET g == GCD(Abs(n), Abs(d))
        sg == IF d < 0 THEN -1 ELSE 1
    IN  <<(sg * n) \div g, (sg * d) \div g>>

RInt(n) == <<n, 1>>

RAdd(x, y) ==
    LET g == GCD(x[2], y[2])
        l == (x[2] \div g) * y[2]
    IN  RNorm(x[1] * (l \div x[2]) + y[1] * (l \div y[2]), l)

RNeg(x) == <<0 - x[1], x[2]>>

RSub(x, y) == RAdd(x, RNeg(y))

RMul(x, y) ==
    LET g1 == GCD(Abs(x[1]), y[2])
        g2 == GCD(Abs(y[1]), x[2])
    IN  IF x[1] = 0 \/ y[1] = 0 THEN <<0, 1>>
        ELSE <<(x[1] \div g1) * (y[1] \div g2), (x[2] \div g2) * (y[2] \div g1)>>

\* y is not zero
RDiv(x, y) == RMul(x, RNorm(y[2], y[1]))

RECURSIVE RSum(_)
RSum(s) == IF s = <<>> THEN <<0, 1>> ELSE RAdd(Head(s), RSum(Tail(s)))

RMinor(m, j) ==
    Array([r \in 1..(Len(m) - 1) |->
        Array([c \in 1..(Len(m) - 1) |-> m[r + 1][IF c < j THEN c ELSE c + 1]])])

RECURSIVE RDet(_), RDetSum(_, _)
\* nm.linalg.det, exactly: expansion along the first row
RDet(m) == IF Len(m) = 1 THEN m[1][1] ELSE RDetSum(m, Len(m))
RDetSum(m, j) ==
    IF j = 0 THEN <<0, 1>>
    ELSE RAdd(RDetSum(m, j - 1),
              RMul(IF j % 2 = 1 THEN m[1][j] ELSE RNeg(m[1][j]), RDet(RMinor(m, j))))

\* an integer coordinate array as exact numbers
RCoors(points) ==
    Array([k \in 1..Len(points) |->
              Array([i \in 1..Len(points[k]) |-> RInt(points[k][i])])])

-----------------------------------------------------------------------------
(* smooth_mesh.                                                            *)

my_types(ctype) ==
    CASE ctype = "triangle" -> "2_3"
      [] ctype = "quad" -> "2_4"
      [] ctype = "tetra" -> "3_4"
      [] ctype = "hexahedron" -> "3_8"
      [] OTHER -> "KeyError"

\* '%d_%d' % (dim, nnd)
FormatEtype(dim, nnd) ==
    CASE dim = 2 /\ nnd = 3 -> "2_3"
      [] dim = 2 /\ nnd = 4 -> "2_4"
      [] dim = 3 /\ nnd = 3 -> "3_3"
      [] dim = 3 /\ nnd = 4 -> "3_4"
      [] dim = 3 /\ nnd = 8 -> "3_8"
      [] OTHER -> "other"

\* local node pairs that are edges of a cell of the kind
KindEdges(kind) ==
    CASE kind = "2_3" -> {<<1, 2>>, <<2, 3>>, <<3, 1>>}
      [] kind = "2_4" -> {<<1, 2>>, <<2, 3>>, <<3, 4>>, <<4, 1>>}
      [] kind = "3_4" -> {<<1, 2>>, <<2, 3>>, <<3, 1>>, <<1, 4>>, <<2, 4>>, <<3, 4>>}
      [] kind = "3_8" -> {<<1, 2>>, <<2, 3>>, <<3, 4>>, <<4, 1>>,
                          <<5, 6>>, <<6, 7>>, <<7, 8>>, <<8, 5>>,
                          <<1, 5>>, <<2, 6>>, <<3, 7>>, <<4, 8>>}

\* local node sets that are sides of a cell of the kind: edges of a 2D kind,
\* faces of a 3D kind
KindSides(kind) ==
    CASE kind = "2_3" -> {{1, 2}, {2, 3}, {3, 1}}
      [] kind = "2_4" -> {{1, 2}, {2, 3}, {3, 4}, {4, 1}}
      [] kind = "3_4" -> {{1, 2, 3}, {1, 2, 4}, {2, 3, 4}, {1, 3, 4}}
      [] kind = "3_8" -> {{1, 2, 3, 4}, {5, 6, 7, 8}, {1, 2, 6, 5},
                          {2, 3, 7, 6}, {3, 4, 8, 7}, {4, 1, 5, 8}}

\* get_snodes_uedges: the nodes on sides that belong to one cell only, and
\* the unique edges of the mesh (each as a node pair, lower id first)
get_snodes_uedges(cells, kind) ==
    LET side(r, f) == {cells[r][c] : c \in f}
        sides == {side(r, f) : r \in 1..Len(cells), f \in KindSides(kind)}
        count(sd) == Cardinality({r \in 1..Len(cells) :
                                     \E f \in KindSides(kind) : side(r, f) = sd})
        pairs == {<<cells[r][e[1]], cells[r][e[2]]>> :
                     r \in 1..Len(cells), e \in KindEdges(kind)}
    IN  [sndi |-> UNION {sd \in sides : count(sd) = 1},
         edges |-> {<<IF q[1] < q[2] THEN q[1] ELSE q[2],
                      IF q[1] < q[2] THEN q[2] ELSE q[1]>> : q \in pairs}]

\* node_group: 2 for every node, 4 for the boundary nodes when bconstr
NodeGroup(n_nod, sndi, bconstr) ==
    [n \in 0..(n_nod - 1) |-> IF bconstr /\ n \in sndi THEN 4 ELSE 2]

\* a cost test that drops the edges between nodes of the same group
CostDirected_Strict(gfrom, gto) == gto > gfrom

\* an edge is entered from its first to its second end when the second end's
\* group is not lower
CostDirected(gfrom, gto) == gto >= gfrom

\* the (row, column) entries of the cost matrix, each of cost 1:
\* rows1/cols1 followed by rows2/cols2
CostEntries(edges, node_group) ==
    {<<e[1], e[2]>> : e \in {d \in edges :
                               CostDirected(node_group[d[1]], node_group[d[2]])}}
    \cup
    {<<e[2], e[1]>> : e \in {d \in edges :
                               CostDirected(node_group[d[2]], node_group[d[1]])}}

\* weights = aux * costs: row i is the cost row divided by its sum; a row
\* whose sum is 0 has no entry (aux holds 1.0 / 0 there and meets no cost)
BuildWeights(n_nod, entries) ==
    [i \in 0..(n_nod - 1) |->
        LET cols == {q[2] : q \in {t \in entries : t[1] = i}}
        IN  [j \in cols |-> RNorm(1, Cardinality(cols))]]

\* sps.identity(n_nod), a weight matrix handed in by the caller
GivenWeights(n_nod) == [i \in 0..(n_nod - 1) |-> [j \in {i} |-> <<1, 1>>]]

\* (weights - identity) * coors
laplacian(coors, W) ==
    Array([k \in 1..Len(coors) |->
        Array([i \in 1..Len(coors[k]) |->
            LET js == DOMAIN W[k - 1]
                cs == SelectSeq([n \in 1..Len(coors) |-> n - 1], LAMBDA n : n \in js)
            IN  RSub(RSum([t \in 1..Len(cs) |-> RMul(W[k - 1][cs[t]], coors[cs[t] + 1][i])]),
                     coors[k][i])])])

RECURSIVE TaubinFrom(_, _, _, _, _, _)
TaubinFrom(coors, W, lam, mu, ii, n_iter) ==
    IF ii >= n_iter THEN coors
    ELSE LET displ == laplacian(coors, W)
             f == IF ii % 2 = 0 THEN lam ELSE mu
             next == Array([k \in 1..Len(coors) |->
                        Array([i \in 1..Len(coors[k]) |->
                            RAdd(coors[k][i], RMul(f, displ[k][i]))])])
         IN  TaubinFrom(next, W, lam, mu, ii + 1, n_iter)

taubin(coors0, W, lam, mu, n_iter) == TaubinFrom(coors0, W, lam, mu, 0, n_iter)

Factorial(n) == IF n = 2 THEN 2 ELSE 6

\* the cells get_volume measures: split when the kind is quad or hexahedron
VolumeCells(el, etypeName) ==
    IF etypeName = "quad" \/ etypeName = "hexahedron" THEN elems_q2t(el) ELSE el

\* get_volume(el, nd): el is [ncol, rows], nd a coordinate array of exact
\* numbers with dim columns
get_volume(el, nd, dim) ==
    LET nnd == el.ncol
        el2 == VolumeCells(el, FormatEtype(dim, nnd))
        nel == Len(el2.rows)
        mul == IF dim = 3 THEN <<-1, Factorial(dim)>> ELSE <<1, Factorial(dim)>>
        \* mtx[:, :, :-1] = nd[el, :] puts el2.ncol rows where dim + 1 are
        fits == el2.ncol = dim + 1 \/ el2.ncol = 1
        mtx(r) == Array([a \in 1..(dim + 1) |->
                     Array([c \in 1..(dim + 1) |->
                         IF c <= dim THEN nd[el2.rows[r][a] + 1][c] ELSE <<1, 1>>])])
        vols == Array([r \in 1..nel |-> RMul(mul, RDet(mtx(r)))])
        volume == RSum(vols)
        \* mtx.sum(1)[:, :-1] / nnd
        csum(r) == [c \in 1..dim |->
                      RDiv(RSum([a \in 1..(dim + 1) |-> mtx(r)[a][c]]), RInt(nnd))]
        bc == [c \in 1..dim |-> RSum([r \in 1..nel |-> RMul(vols[r], csum(r)[c])])]
    IN  IF ~fits THEN [status |-> "ValueError", vol |-> <<0, 1>>, bc |-> <<>>]
        ELSE IF volume[1] = 0 THEN [status |-> "nan", vol |-> volume, bc |-> <<>>]
        ELSE [status |-> "ok", vol |-> volume,
              bc |-> Array([c \in 1..dim |-> RDiv(bc[c], volume)])]

\* smooth_mesh: [weights, vol, ret] where vol is volume0, bc of the first
\* get_volume call
smooth_mesh(m, n_iter, lam, mu, wgiven, bconstr, volume_corr) ==
    LET n_nod == Len(m.points)
        dim == Len(m.points[1])
        cells == [ncol |-> Len(m.cells[1]), rows |-> m.cells]
        su == get_snodes_uedges(m.cells, my_types(m.ctype))
        W == IF wgiven = "None"
             THEN BuildWeights(n_nod,
                               CostEntries(su.edges, NodeGroup(n_nod, su.sndi, bconstr)))
             ELSE GivenWeights(n_nod)
        pts == RCoors(m.points)
        coors == taubin(pts, W, lam, mu, n_iter)
        v0 == get_volume(cells, pts, dim)
        v1 == get_volume(cells, coors, dim)
        scale == RDiv(v0.vol, v1.vol)
        corrected == Array([k \in 1..Len(coors) |->
                        Array([i \in 1..dim |->
                            RAdd(RMul(RSub(coors[k][i], v0.bc[i]), scale), v0.bc[i])])])
    IN  IF ~volume_corr
        THEN [weights |-> W, vol |-> [status |-> "none", vol |-> <<0, 1>>, bc |-> <<>>],
              ret |-> [status |-> "ok", coors |-> coors]]
        ELSE IF v0.status = "ValueError"
        THEN [weights |-> W, vol |-> v0, ret |-> [status |-> "ValueError", coors |-> <<>>]]
        ELSE IF v0.status = "nan" \/ v1.status = "nan"
        THEN [weights |-> W, vol |-> v0, ret |-> [status |-> "nan", coors |-> <<>>]]
        ELSE [weights |-> W, vol |-> v0, ret |-> [status |-> "ok", coors |-> corrected]]

-----------------------------------------------------------------------------
(* gen_mesh_from_voxels_mc: vertex welding and the gmsh re-mesh.           *)

\* k of tree.query
K == 24

\* eps is the largest extent times 1e-6: one part in Tol
Tol == 1000000

Max(S) == CHOOSE x \in S : \A y \in S : y <= x

Min(S) == CHOOSE x \in S : \A y \in S : x <= y

\* tri.reshape((nel * nnd, dim)): the vertices, triangle after triangle
Reshape(t) == [n \in 1..(3 * Len(t)) |-> t[((n - 1) \div 3) + 1][((n - 1) % 3) + 1]]

\* nm.max(coors.max(axis=0) - coors.min(axis=0)), the E of eps = E * 1e-6
Extent(coors) ==
    Max({Max({coors[n][a] : n \in 1..Len(coors)})
            - Min({coors[n][a] : n \in 1..Len(coors)}) : a \in 1..3})

Dist2(p, q) == (p[1] - q[1]) * (p[1] - q[1]) + (p[2] - q[2]) * (p[2] - q[2])
                   + (p[3] - q[3]) * (p[3] - q[3])

\* s * Tol^2 < E * E, with E * E worked out in digits of base Tol
SquareBelow(s, E) ==
    LET q == E \div Tol
        r == E % Tol
        rh == r \div 1000
        rl == r % 1000
        c0 == 2000 * rh * rl + rl * rl
        c1 == 2 * q * r + rh * rh + (c0 \div Tol)
        c2 == q * q + (c1 \div Tol)
    IN  s < c2 \/ (s = c2 /\ (c1 % Tol > 0 \/ c0 % Tol > 0))

\* the query's test d < distance_upper_bound for d = |p - q|, eps = E / Tol
Near(p, q, E) ==
    /\ E > 0
    /\ \A a \in 1..3 : Abs(p[a] - q[a]) <= (E - 1) \div Tol
    /\ SquareBelow(Dist2(p, q), E)

\* one row of idx without the fill entries: the up to K nearest vertices
\* closer than eps to vertex i, as 0-based indices
Query(coors, E, i) ==
    LET near == {j \in 1..Len(coors) : Near(coors[i], coors[j], E)}
        Closer(j1, j2) ==
            \/ Dist2(coors[i], coors[j1]) < Dist2(coors[i], coors[j2])
            \/ Dist2(coors[i], coors[j1]) = Dist2(coors[i], coors[j2]) /\ j1 < j2
        kept == IF Cardinality(near) <= K THEN near
                ELSE {j \in near : Cardinality({j1 \in near : Closer(j1, j)}) < K}
    IN  {j - 1 : j \in kept}

\* a key of uniq, written as the sorted tuple it is
SortedTuple(S) ==
    [n \in 1..Cardinality(S) |-> CHOOSE x \in S : Cardinality({y \in S : y < x}) = n - 1]

LexLess(a, b) ==
    \E n \in 1..Len(b) :
        /\ \A m \in 1..(n - 1) : m <= Len(a) /\ a[m] = b[m]
        /\ n > Len(a) \/ a[n] < b[n]

HashSeeds == [rot : 0..1, rev : BOOLEAN]

\* the keys of uniq in the order the for loop meets them: an order fixed by
\* the interpreter's hashing, here the sorted order turned by seed
SetOrder(uniq, seed) ==
    LET N == Cardinality(uniq)
        asc == [n \in 1..N |->
                   CHOOSE k \in uniq :
                       Cardinality({k2 \in uniq :
                           LexLess(SortedTuple(k2), SortedTuple(k))}) = n - 1]
        pos(n) == ((n - 1 + seed.rot) % N) + 1
    IN  [n \in 1..N |-> IF seed.rev THEN asc[N + 1 - pos(n)] ELSE asc[pos(n)]]

\* an index numbering that starts at 1
EnumId_FromOne(n) == n

\* ii of enumerate(uniq) at the n-th key
EnumId(n) == n - 1

McError(kind) == [status |-> kind, points |-> <<>>, ctype |-> "", cells |-> <<>>, written |-> 0]

\* lines 405-428: the mesh built from the triangles t
Weld(t, seed) ==
    LET nel == Len(t)
        coors == Reshape(t)
        E == Extent(coors)
        uniq == {Query(coors, E, i) : i \in 1..Len(coors)}
        order == SetOrder(uniq, seed)
        nnod == Len(order)
        ntri == [v \in 0..(Len(coors) - 1) |->
                    LET hits == {n \in 1..nnod : v \in order[n]}
                    IN  IF hits = {} THEN 1 ELSE EnumId(Max(hits))]
        ncoors == [n \in 1..nnod |-> coors[Min(order[n]) + 1]]
        cells == [r \in 1..nel |-> [c \in 1..3 |-> ntri[3 * (r - 1) + c - 1]]]
    IN  IF nel = 0 THEN McError("ValueError")
        ELSE IF \E n \in 1..nnod : order[n] = {} THEN McError("IndexError")
        ELSE [status |-> "ok", points |-> ncoors, ctype |-> meshio_types(2, 3),
              cells |-> cells, written |-> 0]

\* what mesh_fn holds after os.system returned: gmsh writes it or leaves it
\* alone; a file is known by the call that wrote it, 0 is no file
RunGmsh(file, run, call) == IF run.wrote THEN call ELSE file

\* meshio.read(mesh_fn)
ReadMesh(file) ==
    IF file = 0 THEN McError("ReadError")
    ELSE [status |-> "ok", points |-> <<>>, ctype |-> "msh", cells |-> <<>>,
          written |-> file]

\* gen_mesh_from_voxels_mc after marching_cubes returned t: [ret, file]
gen_mesh_from_voxels_mc(t, seed, gmsh3d, run, file, call) ==
    LET m == Weld(t, seed)
    IN  IF m.status # "ok" \/ ~gmsh3d THEN [ret |-> m, file |-> file]
        ELSE [ret |-> ReadMesh(RunGmsh(file, run, call)),
              file |-> RunGmsh(file, run, call)]

\* ncoors[cells]: the triangles of a mesh as coordinates
TrianglesOf(m) ==
    [r \in 1..Len(m.cells) |-> [c \in 1..3 |-> m.points[m.cells[r][c] + 1]]]

-----
(* The calls.                                                              *)

VoxelShapes == {<<NX, 2>>, <<NX, 2, 2>>}

Spacings(dim) == IF dim = 2 THEN {<<2, 3>>} ELSE {<<2, 3, 5>>}

NoMesh == [status |-> "none", points |-> <<>>, ctype |-> "", cells |-> <<>>]

NoArgs == [n_iter |-> 0, bconstr |-> TRUE, volume_corr |-> FALSE, weights |-> "None"]

NoVolume == [status |-> "none", vol |-> <<0, 1>>, bc |-> <<>>]

NoCoors == [status |-> "none", coors |-> <<>>]

SmoothIdle ==
    /\ sargs = NoArgs
    /\ weights = <<>>
    /\ vol = NoVolume
    /\ ret = NoCoors

NoRun == [gmsh3d |-> FALSE, exit |-> 0, wrote |-> FALSE]

NoMcMesh == McError("none")

McIdle ==
    /\ tri = <<>>
    /\ hashseed = [rot |-> 0, rev |-> FALSE]
    /\ mcargs = NoRun
    /\ mcmesh = NoMcMesh
    /\ welded = NoMcMesh
    /\ msh_file = 0
    /\ calls = 0

Init ==
    /\ pc = "input"
    /\ \E shape \in VoxelShapes : \E occ \in SUBSET IdxSet(shape) :
           voxels = [shape |-> shape, occ |-> occ]
    /\ dims \in Spacings(Len(voxels.shape))
    /\ etype = "q"
    /\ mtype = "v"
    /\ mesh = NoMesh
    /\ SmoothIdle
    /\ McIdle

GenMesh(et, mt) ==
    /\ pc = "input"
    /\ pc' = "meshed"
    /\ etype' = et
    /\ mtype' = mt
    /\ mesh' = gen_mesh_from_voxels(voxels, dims, et, mt)
    /\ UNCHANGED <<voxels, dims, smoothVars, mcVars>>

Next == \E et \in {"q", "t"} : \E mt \in {"v", "s"} : GenMesh(et, mt)

Spec == Init /\ [][Next]_vars

-----------------------------------------------------------------------------
(* Calls of smooth_mesh.  The mesh handed in is one gen_mesh_from_voxels   *)
(* returns, or such a mesh with one more point that no cell uses (as in a  *)
(* mesh read from a file).                                                 *)

SmoothShapes == {<<NX, 2>>, <<NX, 1, 1>>}

\* lam and mu of the call
SmoothLam == <<1, 2>>
SmoothMu == <<-1, 2>>

WithLoosePoint(m, spacing) ==
    [m EXCEPT !.points = Append(@, [i \in 1..Len(spacing) |-> 0 - spacing[i]])]

SmoothSpacings(dim) == IF dim = 2 THEN {<<1, 2>>} ELSE {<<1, 2, 1>>}

InitSmooth ==
    /\ pc = "meshed"
    /\ \E shape \in SmoothShapes : \E occ \in (SUBSET IdxSet(shape)) \ {{}} :
           voxels = [shape |-> shape, occ |-> occ]
    /\ dims \in SmoothSpacings(Len(voxels.shape))
    /\ etype \in {"q", "t"}
    /\ mtype \in {"v", "s"}
    /\ \E loose \in BOOLEAN :
           LET m == gen_mesh_from_voxels(voxels, dims, etype, mtype)
           IN  /\ m.status = "ok"
               /\ mesh = IF loose THEN WithLoosePoint(m, dims) ELSE m
    /\ SmoothIdle
    /\ McIdle

SmoothMesh(n_iter, wgiven, bconstr, volume_corr) ==
    /\ pc = "meshed"
    /\ pc' = "smoothed"
    /\ sargs' = [n_iter |-> n_iter, bconstr |-> bconstr,
                 volume_corr |-> volume_corr, weights |-> wgiven]
    /\ LET r == smooth_mesh(mesh, n_iter, SmoothLam, SmoothMu, wgiven, bconstr,
                            volume_corr)
       IN  /\ weights' = r.weights
           /\ vol' = r.vol
           /\ ret' = r.ret
    /\ UNCHANGED <<genVars, mcVars>>

NextSmooth ==
    \E n_iter \in 0..MaxIter : \E wgiven \in {"None", "given"} :
        \E bconstr \in BOOLEAN : \E volume_corr \in BOOLEAN :
            SmoothMesh(n_iter, wgiven, bconstr, volume_corr)

SpecSmooth == InitSmooth /\ [][NextSmooth]_vars

-----------------------------------------------------------------------------
(* Calls of gen_mesh_from_voxels_mc.  marching_cubes hands back any        *)
(* triangles over SoupPoints; the temporary files outlive a call.          *)

\* three points one unit apart and one far away, so that eps is about a unit
SoupPoints == {<<0, 0, 0>>, <<1, 0, 0>>, <<2, 0, 0>>, <<1500000, 0, 0>>}

Soups(n) == [1..n -> [1..3 -> SoupPoints]]

NoVoxelMesh ==
    /\ voxels = [shape |-> <<NX, 2>>, occ |-> {}]
    /\ dims = <<1, 1>>
    /\ etype = "q"
    /\ mtype = "v"
    /\ mesh = NoMesh
    /\ SmoothIdle

\* one call of gen_mesh_from_voxels_mc
MeshMc(gmsh3d, exit, wrote) ==
    /\ pc \in {"soup", "mc"}
    /\ calls > 0
    /\ pc' = "mc"
    /\ calls' = calls - 1
    /\ mcargs' = [gmsh3d |-> gmsh3d, exit |-> exit, wrote |-> wrote]
    /\ LET r == gen_mesh_from_voxels_mc(tri, hashseed, gmsh3d,
                                        [exit |-> exit, wrote |-> wrote],
                                        msh_file, MaxCalls - calls + 1)
       IN  /\ mcmesh' = r.ret
           /\ msh_file' = r.file
    /\ UNCHANGED <<genVars, smoothVars, tri, hashseed, welded>>

\* the welding step once more, on the triangles of the mesh it made
WeldAgain ==
    /\ pc = "mc"
    /\ ~mcargs.gmsh3d
    /\ mcmesh.status = "ok"
    /\ pc' = "welded"
    /\ welded' = Weld(TrianglesOf(mcmesh), hashseed)
    /\ UNCHANGED <<genVars, smoothVars, tri, hashseed, mcargs, mcmesh, msh_file, calls>>

InitWeld ==
    /\ pc = "soup"
    /\ NoVoxelMesh
    /\ \E n \in 0..MaxTri : tri \in Soups(n)
    /\ hashseed \in HashSeeds
    /\ mcargs = NoRun
    /\ mcmesh = NoMcMesh
    /\ welded = NoMcMesh
    /\ msh_file = 0
    /\ calls = 1

NextWeld == MeshMc(FALSE, 0, FALSE) \/ WeldAgain

SpecWeld == InitWeld /\ [][NextWeld]_vars

InitRemesh ==
    /\ pc = "soup"
    /\ NoVoxelMesh
    /\ tri \in Soups(1)
    /\ hashseed = [rot |-> 0, rev |-> FALSE]
    /\ mcargs = NoRun
    /\ mcmesh = NoMcMesh
    /\ welded = NoMcMesh
    /\ msh_file = 0
    /\ calls = MaxCalls

NextRemesh ==
    \/ MeshMc(FALSE, 0, FALSE)
    \/ \E exit \in {0, 1} : \E wrote \in BOOLEAN : MeshMc(TRUE, exit, wrote)

SpecRemesh == InitRemesh /\ [][NextRemesh]_vars

-----
(* Geometry used to state the properties.                                  *)

Minor(m, j) ==
    [r \in 1..(Len(m) - 1) |->
        [c \in 1..(Len(m) - 1) |-> m[r + 1][IF c < j THEN c ELSE c + 1]]]

RECURSIVE Det(_), DetSum(_, _)
\* determinant of a square integer matrix, by expansion along the first row
Det(m) == IF Len(m) = 1 THEN m[1][1] ELSE DetSum(m, Len(m))
DetSum(m, j) ==
    IF j = 0 THEN 0
    ELSE DetSum(m, j - 1)
         + (IF j % 2 = 1 THEN 1 ELSE -1) * m[1][j] * Det(Minor(m, j))

\* dim! times the signed volume get_volume gives one simplex: the determinant
\* of the corner matrix augmented by a column of ones, negated in 3D
SignedVol(cell, points) ==
    LET dim == Len(points[1])
        mtx == [r \in 1..Len(cell) |->
                  [c \in 1..(dim + 1) |->
                      IF c <= dim THEN points[cell[r] + 1][c] ELSE 1]]
    IN  IF dim = 3 THEN 0 - Det(mtx) ELSE Det(mtx)

\* coordinates of a grid point
GridCoord(p) == [i \in 1..Len(p) |-> p[i] * dims[i]]

Dim == Len(dims)

\* the 2^dim corner grid points of voxel v
Corners(v) == {p \in IdxSet([i \in 1..Dim |-> voxels.shape[i] + 2]) :
                  \A i \in 1..Dim : p[i] \in {v[i], v[i] + 1}}

\* the corner grid points of voxel v on side s (0: low, 1: high) of axis a
FaceOf(v, a, s) == {p \in Corners(v) : p[a] = v[a] + s}

Neighbour(v, a, s) == [i \in 1..Dim |-> IF i = a THEN v[i] + 2 * s - 1 ELSE v[i]]

\* (occupied voxel, axis, side) whose neighbour is unoccupied or outside
BoundaryPairs ==
    {t \in voxels.occ \X (1..Dim) \X {0, 1} :
        Neighbour(t[1], t[2], t[3]) \notin voxels.occ}

SharedPairs ==
    {t \in voxels.occ \X (1..Dim) \X {0, 1} :
        Neighbour(t[1], t[2], t[3]) \in voxels.occ}

IndicesValid ==
    \A r \in 1..Len(mesh.cells) : \A c \in 1..Len(mesh.cells[r]) :
        mesh.cells[r][c] \in 0..(Len(mesh.points) - 1)

\* the coordinates of the nodes of cell r
CellCoords(r) == {mesh.points[mesh.cells[r][c] + 1] : c \in 1..Len(mesh.cells[r])}

CellsAt(ps) == {r \in 1..Len(mesh.cells) : CellCoords(r) = {GridCoord(p) : p \in ps}}

Generated(et, mt) == pc = "meshed" /\ etype = et /\ mtype = mt

-----------------------------------------------------------------------------
(* C1: in surface mode with etype 'q', for every 2D or 3D occupancy array, *)
(* the call returns a mesh whose cell block holds exactly one face for     *)
(* every (occupied voxel, axis side) with an unoccupied or absent          *)
(* neighbour and no face for a side shared by two occupied voxels; with    *)
(* etype 't' one voxel gives 8 nodes and 12 triangles and a 2x1x1 block    *)
(* 12 nodes and 20 triangles.                                              *)
C1_SurfaceIsBoundaryFaces ==
    /\ Generated("q", "s") =>
          /\ mesh.status = "ok"
          /\ IndicesValid
          /\ Len(mesh.cells) = Cardinality(BoundaryPairs)
          /\ \A t \in BoundaryPairs :
                 Cardinality(CellsAt(FaceOf(t[1], t[2], t[3]))) = 1
          /\ \A t \in SharedPairs :
                 CellsAt(FaceOf(t[1], t[2], t[3])) = {}
    /\ (Generated("t", "s") /\ Dim = 3) =>
          /\ Cardinality(voxels.occ) = 1 =>
                 Len(mesh.points) = 8 /\ Len(mesh.cells) = 12
          /\ voxels.occ = {<<0, 0, 0>>, <<1, 0, 0>>} =>
                 Len(mesh.points) = 12 /\ Len(mesh.cells) = 20

(* C2: in volumetric mode with etype 'q' the number of elements equals the *)
(* number of occupied voxels, the element of a voxel lists the node ids of *)
(* exactly that voxel's 4 or 8 corner grid points, and every index lies in *)
(* [0, n_nodes).                                                           *)
C2_VolumetricElements ==
    Generated("q", "v") =>
        /\ mesh.status = "ok"
        /\ IndicesValid
        /\ Len(mesh.cells) = Cardinality(voxels.occ)
        /\ \A k \in 1..Len(mesh.cells) :
              LET v == SelectSeq(AllIdx(voxels.shape), LAMBDA p : p \in voxels.occ)[k]
              IN  /\ Len(mesh.cells[k]) = Cardinality(Corners(v))
                  /\ Cardinality(Range(mesh.cells[k])) = Cardinality(Corners(v))
                  /\ CellCoords(k) = {GridCoord(p) : p \in Corners(v)}

C2_Witness ==
    /\ Generated("q", "v")
    /\ Dim = 3
    /\ Cardinality(voxels.occ) = 3
    /\ mesh.status = "ok"
    /\ Len(mesh.cells) = 3

-----------------------------------------------------------------------------
(* Edges of the triangulated surface.                                      *)

TriEdges(r) == {{mesh.cells[r][1], mesh.cells[r][2]},
                {mesh.cells[r][2], mesh.cells[r][3]},
                {mesh.cells[r][1], mesh.cells[r][3]}}

AllEdges == UNION {TriEdges(r) : r \in 1..Len(mesh.cells)}

EdgeCount(e) == Cardinality({r \in 1..Len(mesh.cells) : e \in TriEdges(r)})

\* the grid point a node of the mesh sits on
GridOf(n) ==
    CHOOSE p \in IdxSet([i \in 1..Dim |-> voxels.shape[i] + 2]) :
        GridCoord(p) = mesh.points[n + 1]

\* a grid edge from p to p + e_a whose four surrounding voxels are occupied
\* in one diagonal pair only
PinchedAt(p, a) ==
    LET b == IF a = 1 THEN 2 ELSE 1
        c == IF a = 3 THEN 2 ELSE 3
        vx(db, dc) == [i \in 1..Dim |->
                         IF i = b THEN p[i] - db ELSE IF i = c THEN p[i] - dc ELSE p[i]]
        o(db, dc) == vx(db, dc) \in voxels.occ
    IN  \/ o(0, 0) /\ o(1, 1) /\ ~o(0, 1) /\ ~o(1, 0)
        \/ ~o(0, 0) /\ ~o(1, 1) /\ o(0, 1) /\ o(1, 0)

Pinched(e) ==
    \E m \in e : \E n \in e : \E a \in 1..Dim :
        /\ GridOf(n) = Add(GridOf(m), Step(Dim, a))
        /\ PinchedAt(GridOf(m), a)

(* C3 as stated: for every 3D occupancy array every edge of an emitted     *)
(* triangle of the surface (mtype 's', etype 't') is an edge of exactly    *)
(* two emitted triangles.                                                  *)
C3_EveryEdgeInTwoTriangles ==
    (Generated("t", "s") /\ Dim = 3 /\ mesh.status = "ok") =>
        /\ IndicesValid
        /\ \A e \in AllEdges : EdgeCount(e) = 2

(* C3 amended: every edge of an emitted triangle is an edge of exactly two *)
(* emitted triangles, except a grid edge whose four surrounding voxels are *)
(* occupied in one diagonal pair only (two occupied voxels touching along  *)
(* the edge, the other two empty), which is an edge of exactly four.       *)
C3_EdgesInTwoOrFourTriangles ==
    (Generated("t", "s") /\ Dim = 3 /\ mesh.status = "ok") =>
        /\ IndicesValid
        /\ \A e \in AllEdges : EdgeCount(e) = IF Pinched(e) THEN 4 ELSE 2

C3_Witness ==
    /\ Generated("t", "s")
    /\ Dim = 3
    /\ mesh.status = "ok"
    /\ IndicesValid
    /\ \E e \in AllEdges : EdgeCount(e) = 4
    /\ \E e \in AllEdges : EdgeCount(e) = 2

(* C4: after node compaction in surface mode every index of every face     *)
(* lies in [0, n_nodes), every node id is referenced by some face, the     *)
(* kept nodes keep their relative order, and each face refers to the same  *)
(* grid points as before the renumbering.                                  *)
C4_CompactionKeepsFaces ==
    (pc = "meshed" /\ mtype = "s" /\ mesh.status = "ok") =>
        LET grid == NodeGrid(voxels, dims)
            raw0 == RawElems(voxels, grid, Dim, "s")
            raw == IF etype = "t" THEN elems_q2t(raw0) ELSE raw0
        IN  /\ IndicesValid
            /\ \A n \in 0..(Len(mesh.points) - 1) :
                   \E r \in 1..Len(mesh.cells) : n \in Range(mesh.cells[r])
            /\ Len(mesh.cells) = Len(raw.rows)
            /\ \A r \in 1..Len(mesh.cells) : \A c \in 1..Len(mesh.cells[r]) :
                   mesh.points[mesh.cells[r][c] + 1] = grid.coors[raw.rows[r][c] + 1]
            /\ Range(mesh.points) \subseteq Range(grid.coors)
            /\ \A i \in 1..Len(mesh.points) : \A j \in 1..Len(mesh.points) :
                   i < j => PosOf(grid.coors, mesh.points[i])
                              < PosOf(grid.coors, mesh.points[j])

\* a node was dropped: the grid has more nodes than the surface
C4_Witness ==
    /\ pc = "meshed" /\ mtype = "s" /\ mesh.status = "ok"
    /\ Len(mesh.cells) > 0
    /\ Len(mesh.points) < Len(NodeGrid(voxels, dims).coors)

-----------------------------------------------------------------------------
RECURSIVE SumSeq(_)
SumSeq(s) == IF s = <<>> THEN 0 ELSE Head(s) + SumSeq(Tail(s))

\* (p1 - p0) x (p2 - p0) of a triangle in space
Cross(cell, points) ==
    LET u == Sub(points[cell[2] + 1], points[cell[1] + 1])
        v == Sub(points[cell[3] + 1], points[cell[1] + 1])
    IN  <<u[2] * v[3] - u[3] * v[2], u[3] * v[1] - u[1] * v[3], u[1] * v[2] - u[2] * v[1]>>

\* product of the spacings
CellVolume == IF Dim = 2 THEN dims[1] * dims[2] ELSE dims[1] * dims[2] * dims[3]

(* C5: elems_q2t introduces no nodes and preserves volume: every simplex   *)
(* uses only node ids of the cell it comes from; the two triangles of a    *)
(* quad have the quad's area; the six tetrahedra of a generated box all    *)
(* have non-zero signed volume of one sign and 6 x their sum is            *)
(* 6 x dx*dy*dz.                                                           *)
C5_SplitPreservesVolume ==
    (pc = "meshed" /\ etype = "t" /\ mesh.status = "ok") =>
        LET orig == gen_mesh_from_voxels(voxels, dims, "q", mtype).cells
            ns == IF mesh.ctype = "tetra" THEN 6 ELSE 2
            sub(e, ii) == mesh.cells[(e - 1) * ns + ii]
        IN  /\ IndicesValid
            /\ Len(mesh.cells) = ns * Len(orig)
            /\ \A e \in 1..Len(orig) : \A ii \in 1..ns :
                   Range(sub(e, ii)) \subseteq Range(orig[e])
            /\ mtype = "v" =>
                  \A e \in 1..Len(orig) :
                      LET vols == [ii \in 1..ns |-> SignedVol(sub(e, ii), mesh.points)]
                      IN  /\ SumSeq(vols) = (IF Dim = 2 THEN 2 ELSE 6) * CellVolume
                          /\ \/ \A ii \in 1..ns : vols[ii] > 0
                             \/ \A ii \in 1..ns : vols[ii] < 0
            /\ mtype = "s" =>
                  \A e \in 1..Len(orig) :
                      /\ Cross(sub(e, 1), mesh.points) = Cross(sub(e, 2), mesh.points)
                      /\ \E a \in 1..3 :
                            /\ Abs(Cross(sub(e, 1), mesh.points)[a]) * dims[a] = CellVolume
                            /\ \A i \in (1..3) \ {a} : Cross(sub(e, 1), mesh.points)[i] = 0

C5_Witness ==
    /\ Generated("t", "v")
    /\ mesh.ctype = "tetra"
    /\ Len(mesh.cells) = 12
    /\ SumSeq([r \in 1..12 |-> SignedVol(mesh.cells[r], mesh.points)]) = 12 * CellVolume

-----------------------------------------------------------------------------
(* Properties of smooth_mesh.                                              *)

NNod == Len(mesh.points)

Smoothed == pc = "smoothed"

(* C6: smooth_mesh with n_iter = 0 returns normally, for every mesh and    *)
(* every setting of weights, bconstr and volume_corr, with coordinates     *)
(* equal to mesh.points.                                                   *)
C6_ZeroIterationsIsIdentity ==
    (Smoothed /\ sargs.n_iter = 0) =>
        /\ ret.status = "ok"
        /\ ret.coors = RCoors(mesh.points)

\* the mesh edges and boundary nodes of the mesh that was smoothed
MeshEdges == get_snodes_uedges(mesh.cells, my_types(mesh.ctype)).edges

Tag(n) ==
    IF sargs.bconstr /\ n \in get_snodes_uedges(mesh.cells, my_types(mesh.ctype)).sndi
    THEN 4 ELSE 2

\* the columns j with {i, j} a mesh edge and tag(j) >= tag(i)
Pulls(i) == {j \in 0..(NNod - 1) :
                (<<i, j>> \in MeshEdges \/ <<j, i>> \in MeshEdges) /\ Tag(j) >= Tag(i)}

RowSum(i) ==
    LET cs == SelectSeq([n \in 1..NNod |-> n - 1], LAMBDA n : n \in DOMAIN weights[i])
    IN  RSum([t \in 1..Len(cs) |-> weights[i][cs[t]]])

RowIsStochastic(i) ==
    /\ DOMAIN weights[i] \subseteq Pulls(i)
    /\ \A j \in DOMAIN weights[i] :
          weights[i][j][1] > 0 /\ weights[i][j] = RNorm(1, Cardinality(Pulls(i)))
    /\ RowSum(i) = <<1, 1>>

(* C7 as stated: the weight matrix built when weights is None is           *)
(* row-stochastic for every mesh: every row i has non-negative entries,    *)
(* non-zero only at columns j with {i,j} a mesh edge and tag(j) >= tag(i), *)
(* all equal to 1/(number of such j), and summing to 1.                    *)
C7_EveryRowIsStochastic ==
    (Smoothed /\ sargs.weights = "None") =>
        \A i \in 0..(NNod - 1) : RowIsStochastic(i)

(* C7 amended: every row i for which some j has {i,j} a mesh edge and      *)
(* tag(j) >= tag(i) is as stated (entries 1/(number of such j) at exactly  *)
(* those columns, summing to 1); the row of a node with no such j (a node  *)
(* of no cell) has no non-zero entry and sums to 0.                        *)
C7_RowsWithNeighboursAreStochastic ==
    (Smoothed /\ sargs.weights = "None") =>
        \A i \in 0..(NNod - 1) :
            IF Pulls(i) # {}
            THEN RowIsStochastic(i) /\ DOMAIN weights[i] = Pulls(i)
            ELSE DOMAIN weights[i] = {}

\* a boundary node and an interior node joined by an edge: the interior row
\* holds the boundary node, the boundary row does not hold the interior one
C7_Witness ==
    /\ Smoothed /\ sargs.weights = "None" /\ sargs.bconstr
    /\ \E i \in 0..(NNod - 1) : \E j \in DOMAIN weights[i] :
           /\ Tag(i) = 2 /\ Tag(j) = 4
           /\ i \notin DOMAIN weights[j]
           /\ RowSum(j) = <<1, 1>>

(* C10: with volume_corr get_volume splits a quad or hexahedron cell block *)
(* by elems_q2t before measuring it, so the volume it returns equals the   *)
(* volume of the same mesh after an explicit split to simplices.           *)
C10_VolumeOfSplitCells ==
    (Smoothed /\ sargs.volume_corr /\ mesh.ctype \in {"quad", "hexahedron"}) =>
        LET split == elems_q2t([ncol |-> Len(mesh.cells[1]), rows |-> mesh.cells])
            explicit == get_volume(split, RCoors(mesh.points), Len(mesh.points[1]))
        IN  /\ vol.status = "ok"
            /\ vol.vol = explicit.vol

-----------------------------------------------------------------------------
(* Properties of gen_mesh_from_voxels_mc.                                  *)

\* the flattened vertices of the call and the E of its eps = E * 1e-6
SoupCoors == Reshape(tri)

SoupExtent == Extent(SoupCoors)

\* flattened vertices i and j (counted from 1) lie within eps of each other
WithinEps(i, j) == Near(SoupCoors[i], SoupCoors[j], SoupExtent)

\* the new node id of flattened vertex i
NewId(i) == mcmesh.cells[((i - 1) \div 3) + 1][((i - 1) % 3) + 1]

WeldReturned == pc \in {"mc", "welded"} /\ ~mcargs.gmsh3d /\ mcmesh.status = "ok"

MergesWithinEps ==
    \A i, j \in 1..Len(SoupCoors) : WithinEps(i, j) => NewId(i) = NewId(j)

IdsInRange ==
    \A i \in 1..Len(SoupCoors) : NewId(i) \in 0..(Len(mcmesh.points) - 1)

WeldAgainChangesNothing ==
    pc = "welded" =>
        /\ welded.status = "ok"
        /\ Len(welded.points) = Len(mcmesh.points)
        /\ welded.cells = mcmesh.cells

(* C8 as stated: for every triangle soup, any two flattened vertices       *)
(* within eps of each other get the same new node id, every triangle index *)
(* after remapping lies in [0, nnod), and welding the welded mesh again    *)
(* changes neither the node count nor the triangles.                       *)
C8_WeldMergesAndIsIdempotent ==
    WeldReturned => MergesWithinEps /\ IdsInRange /\ WeldAgainChangesNothing

\* lying within eps is transitive among the flattened vertices
EpsTransitive ==
    \A i, j, k \in 1..Len(SoupCoors) :
        WithinEps(i, j) /\ WithinEps(j, k) => WithinEps(i, k)

\* no vertex has more vertices within eps than one query returns
EpsFewNear ==
    \A i \in 1..Len(SoupCoors) :
        Cardinality({j \in 1..Len(SoupCoors) : WithinEps(i, j)}) <= K

(* C8 amended: for every triangle soup of non-zero extent in which lying   *)
(* within eps is transitive and no vertex has more than 24 vertices within *)
(* eps, the welding completes, any two flattened vertices within eps of    *)
(* each other get the same new node id, every triangle index lies in       *)
(* [0, nnod), and welding the welded mesh again changes neither the node   *)
(* count nor the triangles.                                                *)
C8_WeldOfConsistentSoup ==
    (pc \in {"mc", "welded"} /\ ~mcargs.gmsh3d
         /\ Len(tri) > 0 /\ SoupExtent > 0 /\ EpsTransitive /\ EpsFewNear) =>
        /\ mcmesh.status = "ok"
        /\ MergesWithinEps /\ IdsInRange /\ WeldAgainChangesNothing

\* two vertices at different places were welded into one node, another pair
\* was kept apart, and the mesh was welded again
C8_Witness ==
    /\ pc = "welded" /\ WeldReturned /\ EpsTransitive /\ SoupExtent > 0
    /\ \E i, j \in 1..Len(SoupCoors) :
           SoupCoors[i] # SoupCoors[j] /\ WithinEps(i, j) /\ NewId(i) = NewId(j)
    /\ \E i, j \in 1..Len(SoupCoors) : NewId(i) # NewId(j)
    /\ Len(mcmesh.points) < Len(SoupCoors)

(* C9: a gen_mesh_from_voxels_mc(gmsh3d=True) call whose gmsh run exits    *)
(* non-zero or does not write its output file ends with an error and       *)
(* returns no mesh; it never returns a mesh read from a file an earlier    *)
(* call left.                                                              *)
C9_FailedRemeshIsAnError ==
    (pc = "mc" /\ mcargs.gmsh3d /\ (mcargs.exit # 0 \/ ~mcargs.wrote)) =>
        mcmesh.status # "ok"

=============================================================================
